---- MODULE Spec2Model ----
(***************************************************************************)
(* Iterative masked-token decoding of vampnet/modules/transformer.py:      *)
(* VampNet.generate with its helpers mask_by_random_topk and               *)
(* typical_filter, and the flatten / unflatten pair it imports.            *)
(*                                                                         *)
(* Tensors are functions: a token grid maps <<b, c, t>> (0-based) to a     *)
(* token, a flattened tensor maps <<b, s>> to a value.  Probabilities are  *)
(* integer weights w over a total W (p = w / W); logarithms come from the  *)
(* table LnT (1000 * ln n), so confidences and deviations are exact        *)
(* integers.  +infinity is the number Inf, absorbing under log and +.      *)
(***************************************************************************)
EXTENDS Integers, Sequences, FiniteSets, TLC

\* ------------------------------------------------------------------ bounds
MaxBatch == 2
MaxCodebooks == 2
MaxTime == 3
MaxCells == 4
MaxSteps == 3
VocabSize == 2
MaxEntries == 4
MaxWeight == 2
MaxMinTokens == 2

\* --------------------------------------------------------------- constants
Inf == 1000000

vocab_size == VocabSize
mask_token == vocab_size
Vocab == 0 .. (vocab_size - 1)

\* ----------------------------------------------------------------- helpers
Max(a, b) == IF a >= b THEN a ELSE b
Min(a, b) == IF a <= b THEN a ELSE b
Abs(a) == IF a >= 0 THEN a ELSE 0 - a

\* the element of a one-element set
Only(S) == CHOOSE x \in S : TRUE

\* 1000 * ln(n) for n = 1 .. 16, rounded: torch.log / log_softmax on weights
LnT == <<0, 693, 1099, 1386, 1609, 1792, 1946, 2079, 2197, 2303,
         2398, 2485, 2565, 2639, 2708, 2773>>

RECURSIVE SumTo(_, _)
\* sum of f[0] .. f[n-1]
SumTo(f, n) == IF n = 0 THEN 0 ELSE f[n - 1] + SumTo(f, n - 1)

\* total weight of a distribution over 0 .. K-1
Total(w, K) == SumTo(w, K)

\* a probability is <<w, W>> (w / W, 1 <= w <= W); +infinity is <<1, 0>>
PInf == <<1, 0>>

\* torch.log of a probability, times 1000; log(inf) = inf
Log(pr) == IF pr[2] = 0 THEN Inf ELSE LnT[pr[1]] - LnT[pr[2]]

\* ------------------------------------------------------------------ shapes
Cells(s) == (0 .. (s[1] - 1)) \X (0 .. (s[2] - 1)) \X (0 .. (s[3] - 1))
Cells2(s) == (0 .. (s[1] - 1)) \X (0 .. (s[2] - 1))
Flat(B, L) == (0 .. (B - 1)) \X (0 .. (L - 1))

\* einops "b c t -> b (t c)": the layout forward() gives its logits
codebook_flatten(x, B, C, T) ==
    [p \in Flat(B, C * T) |-> x[<<p[1], p[2] % C, p[2] \div C>>]]

\* einops "b (t c) -> b c t" with c = n_c
codebook_unflatten(f, B, L, n_c) ==
    [p \in Cells(<<B, n_c, L \div n_c>>) |-> f[<<p[1], p[3] * n_c + p[2]>>]]

\* ------------------------------------------------------ mask_by_random_topk
\* The temperature is the fraction tnum / tden (tden > 0); confidences are
\* kept multiplied by tden, which changes no comparison.  noise[p] is the
\* Gumbel draw at p.

confidence_unscaled(probs, tnum, tden, noise) ==
    [p \in DOMAIN probs |->
        IF Log(probs[p]) = Inf THEN Inf ELSE tden * Log(probs[p]) + noise[p]]

\* line 343: log(probs) + temperature * gumbel_noise_like(probs)
confidence(probs, tnum, tden, noise) ==
    [p \in DOMAIN probs |->
        IF Log(probs[p]) = Inf THEN Inf ELSE tden * Log(probs[p]) + tnum * noise[p]]

\* line 346: row b of the ascending sort, read at index k (0-based)
sorted_confidence(conf, b, L, k) ==
    CHOOSE v \in {conf[<<b, s>>] : s \in 0 .. (L - 1)} :
        /\ Cardinality({s \in 0 .. (L - 1) : conf[<<b, s>>] < v}) <= k
        /\ k < Cardinality({s \in 0 .. (L - 1) : conf[<<b, s>>] <= v})

\* line 351: the index must lie inside the row, else take_along_dim raises
index_in_range(k, L) == 0 <= k /\ k < L

topk_raises(num_to_mask, B, L) ==
    \E b \in 0 .. (B - 1) : ~index_in_range(num_to_mask[b], L)

cut_off_rank_before(conf, num_to_mask, B, L) ==
    [b \in 0 .. (B - 1) |-> sorted_confidence(conf, b, L, Max(0, num_to_mask[b] - 1))]

\* line 351: take_along_dim(sorted_confidence, num_to_mask), per row
cut_off(conf, num_to_mask, B, L) ==
    [b \in 0 .. (B - 1) |-> sorted_confidence(conf, b, L, num_to_mask[b])]

\* line 355
below_cut_off(conf, cut, B, L) == [p \in Flat(B, L) |-> conf[p] < cut[p[1]]]

\* lines 343-358
mask_by_random_topk(num_to_mask, probs, B, L, tnum, tden, noise) ==
    Only({Only({below_cut_off(conf, cut, B, L) :
                   cut \in {cut_off(conf, num_to_mask, B, L)}}) :
             conf \in {confidence(probs, tnum, tden, noise)}})

\* ------------------------------------------------------------ typical_filter
\* One position: w maps 0 .. K-1 to integer weights (softmax = w / W); a
\* weight 0 is a logit of -infinity.  typical_mass is mn / md.

\* line 368: -log_softmax, times 1000
neg_log(w, W, v) == IF w[v] = 0 THEN Inf ELSE LnT[W] - LnT[w[v]]

RECURSIVE EntropyTo(_, _, _)
\* line 370: W * entropy; nansum drops the 0 * -inf terms
EntropyTo(w, W, n) ==
    IF n = 0 THEN 0
    ELSE (IF w[n - 1] = 0 THEN 0 ELSE w[n - 1] * neg_log(w, W, n - 1))
         + EntropyTo(w, W, n - 1)

\* line 372: W * |(-log p) - entropy|
c_flat_shifted(w, K, v) ==
    LET W == Total(w, K)
    IN  IF w[v] = 0 THEN Inf ELSE Abs(W * neg_log(w, W, v) - EntropyTo(w, W, K))

\* line 373: torch.sort is not stable: any ascending order of the deviations
SortOrders(w, K) ==
    UNION {{perm \in [0 .. (K - 1) -> 0 .. (K - 1)] :
               /\ \A a, b \in 0 .. (K - 1) : a # b => perm[a] # perm[b]
               /\ \A a, b \in 0 .. (K - 1) : a < b => c[perm[a]] <= c[perm[b]]} :
              c \in {[v \in 0 .. (K - 1) |-> c_flat_shifted(w, K, v)]}}

RECURSIVE x_flat_cumsum(_, _, _)
\* line 374: cumulative weight of sorted ranks 0 .. j
x_flat_cumsum(w, perm, j) ==
    IF j = 0 THEN w[perm[0]] ELSE w[perm[j]] + x_flat_cumsum(w, perm, j - 1)

\* line 376: number of ranks whose cumulative mass is below typical_mass
last_ind(w, K, perm, mn, md) ==
    Cardinality({j \in 0 .. (K - 1) : x_flat_cumsum(w, perm, j) * md < mn * Total(w, K)})

\* lines 377-379: gather(1, last_ind) raises when last_ind = K
typical_raises(w, K, perm, mn, md) == last_ind(w, K, perm, mn, md) >= K

at_or_beyond_cutoff(c, cut) == c >= cut

\* line 377: the comparison that marks a sorted rank for removal
beyond_cutoff(c, cut) == c > cut

remove_by_mass_only(w, K, perm, mn, md, min_tokens, j) ==
    beyond_cutoff(c_flat_shifted(w, K, perm[j]),
                  c_flat_shifted(w, K, perm[last_ind(w, K, perm, mn, md)]))

\* lines 377-381
sorted_indices_to_remove(w, K, perm, mn, md, min_tokens, j) ==
    IF min_tokens > 1 /\ j < min_tokens THEN FALSE
    ELSE beyond_cutoff(c_flat_shifted(w, K, perm[j]),
                       c_flat_shifted(w, K, perm[last_ind(w, K, perm, mn, md)]))

\* lines 382-387: the returned logits, removed entries at weight 0 (-inf)
typical_filter(w, K, perm, mn, md, min_tokens) ==
    [v \in 0 .. (K - 1) |->
        LET j == CHOOSE jj \in 0 .. (K - 1) : perm[jj] = v
        IN  IF sorted_indices_to_remove(w, K, perm, mn, md, min_tokens, j)
            THEN 0 ELSE w[v]]

\* ------------------------------------------------------- VampNet.generate
\* unit holds one direct call of a helper (mask_by_random_topk,
\* typical_filter, flatten / unflatten); it is idle during generate
VARIABLES self, args, shape, pc, z, z_masked, mask, sampled_z,
          num_mask_tokens_at_start, i, logits, drawn, calls, ret, unit

vars == <<self, args, shape, pc, z, z_masked, mask, sampled_z,
          num_mask_tokens_at_start, i, logits, drawn, calls, ret, unit>>

genvars == <<self, args, shape, pc, z, z_masked, mask, sampled_z,
             num_mask_tokens_at_start, i, logits, drawn, calls, ret>>

\* the scoring function's answer at one position: softmax weights over Vocab
Peaked == [v \in Vocab |-> IF v = vocab_size - 1 THEN 3 ELSE 1]
Dists == {Peaked}

\* draws of gumbel_noise_like(probs) (lines 27-29): two noise tensors, one
\* raising the even and one the odd flattened positions
GumbelTensors(B, L) ==
    {[p \in Flat(B, L) |-> IF p[2] % 2 = par THEN 500 ELSE 0] : par \in {0, 1}}

\* generate's defaults, typical_mass = 0.2 and typical_min_tokens = 1
typical_mass_default == <<1, 5>>
typical_min_tokens_default == 1

NoTensor == <<>>
is_bound(x) == DOMAIN x # {}

Shapes ==
    {s \in (1 .. MaxBatch) \X (1 .. MaxCodebooks) \X (1 .. MaxTime) :
        s[1] * s[2] * s[3] <= MaxCells}

\* caller's start_tokens of shape s: in-vocabulary grids, and one grid that
\* already carries the mask token at its last cell
StartTokens(s) ==
    {[p \in Cells(s) |-> (p[1] + p[2] + p[3]) % vocab_size]}
    \cup {[p \in Cells(s) |->
              IF p = <<s[1] - 1, s[2] - 1, s[3] - 1>> THEN mask_token
              ELSE (p[1] + p[2] + p[3]) % vocab_size]}

\* shapes of a caller's mask that masked_fill does not broadcast to s
MismatchedShapes(s) ==
    (IF s[3] > 1 THEN {<<s[1], s[2], s[3] + 1>>, <<s[1], s[3] + 1>>} ELSE {})
    \cup (IF s[2] > 1 THEN {<<s[1], s[2] + 1, s[3]>>} ELSE {})
    \cup (IF s[1] > 1 THEN {<<s[1] + 1, s[2], s[3]>>} ELSE {})

\* shapes of a caller's mask that generate accepts for a grid of shape s
AcceptedShapes(s) == {s, <<s[1], s[3]>>}

\* a shape masked_fill broadcasts across the codebooks
BroadcastShapes(s) == IF s[2] > 1 THEN {<<s[1], 1, s[3]>>} ELSE {}

MaskCells(ms) == IF Len(ms) = 2 THEN Cells2(ms) ELSE Cells(ms)

NoMask == [some |-> FALSE, shape |-> <<>>, val |-> <<>>]

\* caller's mask for a grid of shape s: None, every mask of the grid's shape
\* and every 2-D mask, the all-true mask of a broadcast shape, and one mask
\* of each mismatched shape (its entries are never read)
MaskArgs(s) ==
    {NoMask}
    \cup UNION {{[some |-> TRUE, shape |-> ms, val |-> v] : v \in [MaskCells(ms) -> BOOLEAN]} :
                   ms \in AcceptedShapes(s)}
    \cup {[some |-> TRUE, shape |-> ms, val |-> [c \in MaskCells(ms) |-> TRUE]] :
             ms \in MismatchedShapes(s) \cup BroadcastShapes(s)}

NoStart == [some |-> FALSE, val |-> <<>>]

StartArgs(s) ==
    {[some |-> TRUE, val |-> g] : g \in StartTokens(s)}
    \cup (IF s[1] = 1 THEN {NoStart} ELSE {})

\* a constructed VampNet and one call of generate on it
Init ==
    \E s \in Shapes :
    \E nc \in 0 .. (s[2] - 1) :
    \E N \in (0 - 1) .. MaxSteps :
    \E st \in StartArgs(s) :
    \E m \in MaskArgs(s) :
    \E temp \in {0, 1} :
    \E tf \in BOOLEAN :
        /\ self = [n_codebooks |-> s[2], n_conditioning_codebooks |-> nc]
        /\ args = [time_steps |-> s[3], sampling_steps |-> N, start_tokens |-> st,
                   mask |-> m, temperature |-> temp, typical_filtering |-> tf,
                   typical_mass |-> typical_mass_default,
                   typical_min_tokens |-> typical_min_tokens_default]
        /\ shape = s
        /\ pc = "call"
        /\ z = NoTensor
        /\ z_masked = NoTensor
        /\ mask = NoMask
        /\ sampled_z = NoTensor
        /\ num_mask_tokens_at_start = 0
        /\ i = 0
        /\ logits = NoTensor
        /\ drawn = NoTensor
        /\ calls = [from_codes |-> 0, forward |-> 0, decode |-> 0]
        /\ ret = [kind |-> "none"]
        /\ unit = [op |-> "none"]

\* lines 170-175
resolve_z(st, n_codebooks, time_steps) ==
    IF st.some THEN st.val
    ELSE [p \in Cells(<<1, n_codebooks, time_steps>>) |-> mask_token]

\* lines 183-185: ones_like(z) with the conditioning codebooks zeroed
default_mask(zs, ncond) ==
    [some |-> TRUE, shape |-> zs, val |-> [p \in Cells(zs) |-> p[2] >= ncond]]

\* lines 186-187: a 2-D mask is repeated across z.shape[1] codebooks
repeat_mask(m, zs) ==
    IF Len(m.shape) = 2
    THEN [some |-> TRUE, shape |-> <<m.shape[1], zs[2], m.shape[2]>>,
          val |-> [p \in Cells(<<m.shape[1], zs[2], m.shape[2]>>) |-> m.val[<<p[1], p[3]>>]]]
    ELSE m

same_shape(ms, zs) == ms = zs

\* line 194: masked_fill needs every mask dimension equal to z's or 1
broadcastable(ms, zs) == \A d \in 1 .. 3 : ms[d] = zs[d] \/ ms[d] = 1

\* line 194: the mask entry that broadcasting puts at cell p
mask_at(m, p) ==
    m.val[<<IF m.shape[1] = 1 THEN 0 ELSE p[1],
            IF m.shape[2] = 1 THEN 0 ELSE p[2],
            IF m.shape[3] = 1 THEN 0 ELSE p[3]>>]

\* line 194
masked_fill(x, m, zs) == [p \in Cells(zs) |-> IF mask_at(m, p) THEN mask_token ELSE x[p]]

\* line 198: (z_masked == mask_token).sum() over the whole grid
count_mask_tokens(x) == Cardinality({p \in DOMAIN x : x[p] = mask_token})

drop_last_codebooks(x, B, C, T, ncond) ==
    [p \in Cells(<<B, C - ncond, T>>) |-> x[p]]

\* line 263: z_masked[:, n_conditioning_codebooks:, :]
drop_conditioning(x, B, C, T, ncond) ==
    [p \in Cells(<<B, C - ncond, T>>) |-> x[<<p[1], p[2] + ncond, p[3]>>]]

sampled_z_prebound(zm, B, C, T, ncond) ==
    codebook_flatten(drop_conditioning(zm, B, C, T, ncond), B, C - ncond, T)

\* sampled_z is first assigned inside the loop body (line 246)
sampled_z_before_loop(zm, B, C, T, ncond) == NoTensor

\* lines 159-203: INIT
Resolve ==
    /\ pc = "call"
    /\ LET zr == resolve_z(args.start_tokens, self.n_codebooks, args.time_steps)
           m0 == IF args.mask.some THEN args.mask
                 ELSE default_mask(shape, self.n_conditioning_codebooks)
           m1 == repeat_mask(m0, shape)
       IN  /\ z' = zr
           /\ mask' = m1
           /\ IF broadcastable(m1.shape, shape)
              THEN LET zm == masked_fill(zr, m1, shape)
                   IN  /\ z_masked' = zm
                       /\ num_mask_tokens_at_start' = count_mask_tokens(zm)
                       /\ sampled_z' = sampled_z_before_loop(zm, shape[1], shape[2], shape[3],
                                                             self.n_conditioning_codebooks)
                       /\ pc' = "loop"
                       /\ ret' = ret
              ELSE /\ pc' = "error"
                   /\ ret' = [kind |-> "error", at |-> "masked_fill"]
                   /\ UNCHANGED <<z_masked, num_mask_tokens_at_start, sampled_z>>
    /\ UNCHANGED <<self, args, shape, i, logits, drawn, calls, unit>>

\* line 202
n_infer_codebooks(n_codebooks, ncond) == n_codebooks - ncond

\* lines 230-234: typical_filter builds new tensors (masked_fill, rearrange)
\* and generate does not assign its result: logits stay as scored
logits_after_typical(lg, typical_filtering) == lg

\* lines 253-258: the probability of the sampled token
selected_probs(lg, dr) ==
    [p \in DOMAIN lg |-> <<lg[p][dr[p]], Total(lg[p], vocab_size)>>]

take_sampled(m, sampled, zf) == sampled

\* lines 270-272: torch.where(mask, sampled_z, z_masked)
keep_committed(m, sampled, zf) ==
    [p \in DOMAIN zf |-> IF m[p] THEN sampled[p] ELSE zf[p]]

keep_selected(m, sel) == sel

\* lines 276-278: torch.where(mask, selected_probs, inf)
ignore_unmasked(m, sel) == [p \in DOMAIN m |-> IF m[p] THEN sel[p] ELSE PInf]

\* 1000 * cos(pi/2 * k / N), row N, column k = 1 .. N
CosT == <<  <<0>>,
            <<707, 0>>,
            <<866, 500, 0>>,
            <<923, 707, 382, 0>>,
            <<951, 809, 587, 309, 0>> >>

\* _gamma(r) at r = k / N, times 1000: the cosine schedule, non-increasing
\* from gamma(0) = 1 to gamma(1) = 0
gamma(k, N) == IF k = 0 THEN 1000 ELSE CosT[N][k]

scheduled_from_zero(ii, N, nstart) == (gamma(ii, N) * nstart) \div 1000

\* line 281: floor(_gamma(r) * num_mask_tokens_at_start) at r = (ii + 1) / N
scheduled(ii, N, nstart) == (gamma(ii + 1, N) * nstart) \div 1000

clamp_every_step(ii, N, msum, sched) == Max(1, Min(msum - 1, sched))

\* lines 284-291
clamp_num_to_mask(ii, N, msum, sched) ==
    IF ii # N - 1 THEN Max(1, Min(msum - 1, sched)) ELSE sched

never_remask(m, sampled) == sampled

\* lines 299-301: torch.where(mask, mask_token, sampled_z)
remask(m, sampled) ==
    [p \in DOMAIN sampled |-> IF m[p] THEN mask_token ELSE sampled[p]]

add_mask_tokens(zz, x, B, C, T, ncond) ==
    [p \in Cells(<<B, C, T>>) |->
        IF p[2] < ncond THEN mask_token ELSE x[<<p[1], p[2] - ncond, p[3]>>]]

\* lines 309-311 and 317-319: torch.cat((z[:, :n_conditioning_codebooks, :], x), dim=1)
add_conditioning(zz, x, B, C, T, ncond) ==
    [p \in Cells(<<B, C, T>>) |->
        IF p[2] < ncond THEN zz[p] ELSE x[<<p[1], p[2] - ncond, p[3]>>]]

\* line 265: (z_masked == mask_token)
is_mask_token(zf) == [p \in DOMAIN zf |-> zf[p] = mask_token]

\* line 288: mask.sum(dim=-1, keepdim=True)
mask_sum(m, B, L) ==
    [b \in 0 .. (B - 1) |-> Cardinality({s \in 0 .. (L - 1) : m[<<b, s>>]})]

\* lines 281-291, per batch row
num_to_mask(ii, N, msum, nstart, B) ==
    [b \in 0 .. (B - 1) |-> clamp_num_to_mask(ii, N, msum[b], scheduled(ii, N, nstart))]

\* lines 209-312: STEP(i), one iteration of the loop.  The scoring function
\* and the multinomial draw are free at the masked positions; what they
\* give elsewhere is discarded by lines 270-278 and is fixed here.
Step ==
    /\ pc = "loop"
    /\ i < args.sampling_steps
    /\ LET B == shape[1]
           C == shape[2]
           T == shape[3]
           N == args.sampling_steps
           ncond == self.n_conditioning_codebooks
           ninf == n_infer_codebooks(self.n_codebooks, ncond)
           L == ninf * T
           tnum == args.temperature * (N - (i + 1))
       IN  \E zf \in {codebook_flatten(drop_conditioning(z_masked, B, C, T, ncond), B, ninf, T)} :
           \E m \in {is_mask_token(zf)} :
           \E lg \in {f \in [Flat(B, L) -> Dists] : \A p \in Flat(B, L) : ~m[p] => f[p] = Peaked} :
           \E dr \in {f \in [Flat(B, L) -> Vocab] :
                        \A p \in Flat(B, L) :
                            IF m[p] THEN lg[p][f[p]] > 0 ELSE f[p] = vocab_size - 1} :
           \E nz \in (IF tnum = 0 THEN {[p \in Flat(B, L) |-> 0]} ELSE GumbelTensors(B, L)) :
           \E used \in {logits_after_typical(lg, args.typical_filtering)} :
           \E sz \in {keep_committed(m, dr, zf)} :
           \E sp \in {ignore_unmasked(m, selected_probs(used, dr))} :
           \E num \in {num_to_mask(i, N, mask_sum(m, B, L), num_mask_tokens_at_start, B)} :
               /\ calls' = [calls EXCEPT !.from_codes = @ + 1, !.forward = @ + 1]
               /\ IF topk_raises(num, B, L)
                  THEN /\ pc' = "error"
                       /\ ret' = [kind |-> "error", at |-> "take_along_dim"]
                       /\ UNCHANGED <<z_masked, mask, sampled_z, i, logits, drawn>>
                  ELSE \E nm \in {mask_by_random_topk(num, sp, B, L, tnum, N, nz)} :
                           /\ logits' = lg
                           /\ drawn' = dr
                           /\ sampled_z' = sz
                           /\ z_masked' = add_conditioning(z,
                                  codebook_unflatten(remask(nm, sz), B, L, ninf),
                                  B, C, T, ncond)
                           /\ mask' = [some |-> TRUE, shape |-> <<B, ninf, T>>,
                                       val |-> codebook_unflatten(nm, B, L, ninf)]
                           /\ i' = i + 1
                           /\ UNCHANGED <<pc, ret>>
    /\ UNCHANGED <<self, args, shape, z, num_mask_tokens_at_start, unit>>

\* lines 136-140: the time steps to_signal silences
silenced(x, T) == {t \in 0 .. (T - 1) : \E p \in DOMAIN x : p[3] = t /\ x[p] = mask_token}

\* lines 315-326: DONE
Finish ==
    /\ pc = "loop"
    /\ i >= args.sampling_steps
    /\ LET B == shape[1]
           C == shape[2]
           T == shape[3]
           ncond == self.n_conditioning_codebooks
           ninf == n_infer_codebooks(self.n_codebooks, ncond)
       IN  IF ~is_bound(sampled_z)
           THEN /\ pc' = "error"
                /\ ret' = [kind |-> "error", at |-> "sampled_z"]
                /\ calls' = calls
           ELSE LET out == add_conditioning(z,
                               codebook_unflatten(sampled_z, B, ninf * T, ninf),
                               B, C, T, ncond)
                IN  /\ pc' = "done"
                    /\ \E return_signal \in BOOLEAN :
                         IF return_signal
                         THEN /\ ret' = [kind |-> "signal", tokens |-> out,
                                         silent |-> silenced(out, T)]
                              /\ calls' = [calls EXCEPT !.decode = @ + 1]
                         ELSE /\ ret' = [kind |-> "tokens", tokens |-> out]
                              /\ calls' = calls
    /\ UNCHANGED <<self, args, shape, z, z_masked, mask, sampled_z,
                   num_mask_tokens_at_start, i, logits, drawn, unit>>

Next == Resolve \/ Step \/ Finish

Spec == Init /\ [][Next]_vars

\* ------------------------------------------------- direct calls of helpers
\* generate is not running
NoGenerate ==
    /\ self = [n_codebooks |-> 1, n_conditioning_codebooks |-> 0]
    /\ args = [sampling_steps |-> 0]
    /\ shape = <<1, 1, 1>>
    /\ pc = "idle"
    /\ z = NoTensor
    /\ z_masked = NoTensor
    /\ mask = NoMask
    /\ sampled_z = NoTensor
    /\ num_mask_tokens_at_start = 0
    /\ i = 0
    /\ logits = NoTensor
    /\ drawn = NoTensor
    /\ calls = [from_codes |-> 0, forward |-> 0, decode |-> 0]
    /\ ret = [kind |-> "none"]

\* probabilities handed to mask_by_random_topk: +inf marks an unmasked position
TopkProbs == {<<1, 4>>, <<2, 4>>, <<3, 4>>, PInf}

\* a call mask_by_random_topk(num_to_mask, probs, temperature) on B rows of
\* length L, temperature 0.0 or 1.0
InitTopk ==
    /\ NoGenerate
    /\ \E B \in 1 .. MaxBatch :
       \E L \in 1 .. MaxCells :
       \E temp \in {0, 1} :
           /\ B * L <= MaxCells
           /\ \E k \in [0 .. (B - 1) -> 0 .. L] :
              \E pr \in [Flat(B, L) -> TopkProbs] :
              \E nz \in (IF temp = 0 THEN {[p \in Flat(B, L) |-> 0]} ELSE GumbelTensors(B, L)) :
                  unit = [op |-> "topk", B |-> B, L |-> L, num_to_mask |-> k, probs |-> pr,
                          temperature |-> temp, noise |-> nz,
                          done |-> FALSE, raised |-> FALSE, out |-> NoTensor]

\* lines 328-358
TopkCall ==
    /\ unit.op = "topk"
    /\ ~unit.done
    /\ unit' = [unit EXCEPT
                  !.done = TRUE,
                  !.raised = topk_raises(unit.num_to_mask, unit.B, unit.L),
                  !.out = IF topk_raises(unit.num_to_mask, unit.B, unit.L) THEN NoTensor
                          ELSE mask_by_random_topk(unit.num_to_mask, unit.probs, unit.B,
                                                   unit.L, unit.temperature, 1, unit.noise)]
    /\ UNCHANGED genvars

SpecTopk == InitTopk /\ [][TopkCall]_vars

\* values of typical_mass: 0.2, 0.5, 1.0 and, above the range, 1.2
TypicalMasses == {<<1, 5>>, <<1, 2>>, <<1, 1>>, <<6, 5>>}

\* a call typical_filter(logits, typical_mass, typical_min_tokens) at one
\* position with K vocabulary entries
InitTypical ==
    /\ NoGenerate
    /\ \E K \in 2 .. MaxEntries :
       \E w \in [0 .. (K - 1) -> 0 .. MaxWeight] :
       \E tm \in TypicalMasses :
       \E mt \in 0 .. MaxMinTokens :
           /\ Total(w, K) >= 1
           /\ Total(w, K) <= Len(LnT)
           /\ unit = [op |-> "typical", K |-> K, w |-> w, typical_mass |-> tm,
                      typical_min_tokens |-> mt, done |-> FALSE, raised |-> FALSE,
                      perm |-> NoTensor, out |-> NoTensor]

\* lines 361-387
TypicalCall ==
    /\ unit.op = "typical"
    /\ ~unit.done
    /\ \E perm \in SortOrders(unit.w, unit.K) :
       \E r \in {typical_raises(unit.w, unit.K, perm, unit.typical_mass[1],
                                unit.typical_mass[2])} :
           unit' = [unit EXCEPT
                      !.done = TRUE,
                      !.perm = perm,
                      !.raised = r,
                      !.out = IF r THEN NoTensor
                              ELSE typical_filter(unit.w, unit.K, perm, unit.typical_mass[1],
                                                  unit.typical_mass[2],
                                                  unit.typical_min_tokens)]
    /\ UNCHANGED genvars

SpecTypical == InitTypical /\ [][TypicalCall]_vars

\* a token grid x of shape s on a model with ncond conditioning codebooks
InitFlatten ==
    /\ NoGenerate
    /\ \E s \in Shapes :
       \E nc \in 0 .. (s[2] - 1) :
       \E x \in [Cells(s) -> 0 .. mask_token] :
           unit = [op |-> "flatten", shape |-> s, ncond |-> nc, x |-> x, stage |-> 0,
                   flat |-> NoTensor, back |-> NoTensor]

\* line 263: the flatten at the start of the sampling logic of a step
FlattenCall ==
    /\ unit.op = "flatten"
    /\ unit.stage = 0
    /\ unit' = [unit EXCEPT
                  !.stage = 1,
                  !.flat = codebook_flatten(
                               drop_conditioning(unit.x, unit.shape[1], unit.shape[2],
                                                 unit.shape[3], unit.ncond),
                               unit.shape[1],
                               n_infer_codebooks(unit.shape[2], unit.ncond),
                               unit.shape[3])]
    /\ UNCHANGED genvars

\* lines 304-311: the unflatten at the end of a step
UnflattenCall ==
    /\ unit.op = "flatten"
    /\ unit.stage = 1
    /\ unit' = [unit EXCEPT
                  !.stage = 2,
                  !.back = add_conditioning(unit.x,
                               codebook_unflatten(unit.flat, unit.shape[1],
                                   n_infer_codebooks(unit.shape[2], unit.ncond) * unit.shape[3],
                                   n_infer_codebooks(unit.shape[2], unit.ncond)),
                               unit.shape[1], unit.shape[2], unit.shape[3], unit.ncond)]
    /\ UNCHANGED genvars

NextFlatten == FlattenCall \/ UnflattenCall

SpecFlatten == InitFlatten /\ [][NextFlatten]_vars

\* ------------------------------------------------------------------ claims
Ncond == self.n_conditioning_codebooks
Nsteps == args.sampling_steps

\* masked positions of batch row b: predicted-codebook cells holding mask_token
MaskedCount(x, b) ==
    Cardinality({p \in DOMAIN x : p[1] = b /\ p[2] >= Ncond /\ x[p] = mask_token})

Rows == 0 .. (shape[1] - 1)

\* C1: in every step the number of masked positions of every batch row does
\* not grow, and after the final step (i = sampling_steps - 1) it is 0.
C1_MaskCountConverges ==
    [][(pc = "loop" /\ i' = i + 1) =>
          \A b \in Rows :
              /\ MaskedCount(z_masked', b) <= MaskedCount(z_masked, b)
              /\ (i' = Nsteps => MaskedCount(z_masked', b) = 0)]_vars

\* a run of three steps, two rows, finished, that began with four masked positions
C1_Witness ==
    /\ pc = "done"
    /\ Nsteps = 3
    /\ shape[1] = 2
    /\ num_mask_tokens_at_start = 4
    /\ \A b \in Rows : MaskedCount(z_masked, b) = 0

\* C2: with caller-supplied start_tokens and any mask, the conditioning
\* channels of the returned token grid equal those of start_tokens.
C2_ConditioningUnchanged ==
    (pc = "done" /\ ret.kind = "tokens" /\ args.start_tokens.some) =>
        \A p \in Cells(shape) :
            p[2] < Ncond => ret.tokens[p] = args.start_tokens.val[p]

\* a finished run whose caller-supplied mask covers a conditioning cell
C2_Witness ==
    /\ pc = "done"
    /\ ret.kind = "tokens"
    /\ args.start_tokens.some
    /\ Ncond = 1
    /\ args.mask.some
    /\ args.mask.shape = shape
    /\ args.mask.val[<<0, 0, 0>>]
    /\ Nsteps >= 2

\* C3: with start_tokens = None and mask = None, batch 1, one conditioning
\* codebook and as many steps as time steps, the returned grid holds no
\* mask token in any channel, the conditioning channel included.
C3_NoMaskTokenReturned ==
    (/\ pc = "done"
     /\ ret.kind = "tokens"
     /\ ~args.start_tokens.some
     /\ ~args.mask.some
     /\ shape[1] = 1
     /\ Ncond = 1
     /\ Nsteps = args.time_steps) =>
        \A p \in Cells(shape) : ret.tokens[p] # mask_token

\* C5: one step, in-vocabulary start_tokens and a mask true at exactly one
\* predicted-codebook cell: that cell gets a token of the vocabulary and
\* every other cell keeps its start token.
C5_SingleCellFilled ==
    (/\ pc = "done"
     /\ ret.kind = "tokens"
     /\ Nsteps = 1
     /\ args.start_tokens.some
     /\ \A p \in Cells(shape) : args.start_tokens.val[p] \in Vocab
     /\ args.mask.some
     /\ args.mask.shape = shape
     /\ Cardinality({p \in Cells(shape) : args.mask.val[p]}) = 1
     /\ \A p \in Cells(shape) : args.mask.val[p] => p[2] >= Ncond) =>
        \A p \in Cells(shape) :
            IF args.mask.val[p] THEN ret.tokens[p] \in Vocab
            ELSE ret.tokens[p] = args.start_tokens.val[p]

\* the masked cell is interior in time and the run has finished
C5_Witness ==
    /\ pc = "done"
    /\ ret.kind = "tokens"
    /\ Nsteps = 1
    /\ args.start_tokens.some
    /\ \A p \in Cells(shape) : args.start_tokens.val[p] \in Vocab
    /\ args.mask.some
    /\ args.mask.shape = shape
    /\ shape[3] = 3
    /\ \A p \in Cells(shape) : args.mask.val[p] <=> p = <<0, 0, 1>>
    /\ ret.tokens[<<0, 0, 1>>] # args.start_tokens.val[<<0, 0, 1>>]

\* C6: with typical_filtering = True the token drawn at every position of
\* every step belongs to the set typical_filter retains for that position.
C6_DrawnFromFiltered ==
    (args.typical_filtering /\ is_bound(drawn)) =>
        \A p \in DOMAIN drawn :
            \A perm \in SortOrders(logits[p], vocab_size) :
                typical_filter(logits[p], vocab_size, perm,
                               args.typical_mass[1], args.typical_mass[2],
                               args.typical_min_tokens)[drawn[p]] > 0

\* the mask the caller supplied, after a 2-D mask is repeated across codebooks
SuppliedMaskShape ==
    IF Len(args.mask.shape) = 2
    THEN <<args.mask.shape[1], shape[2], args.mask.shape[2]>>
    ELSE args.mask.shape

FailedBeforeFirstStep ==
    /\ pc = "error"
    /\ ret.at = "masked_fill"
    /\ calls.forward = 0
    /\ calls.from_codes = 0
    /\ i = 0

C10_NoStepsIsAnError ==
    Nsteps < 1 =>
        /\ pc \in {"call", "loop", "error"}
        /\ ret.kind \in {"none", "error"}
        /\ i = 0
        /\ calls = [from_codes |-> 0, forward |-> 0, decode |-> 0]

\* the call with sampling_steps < 1 has ended at the read of sampled_z
C10_Witness ==
    /\ Nsteps < 1
    /\ pc = "error"
    /\ ret.at = "sampled_z"

\* the confidence of position s of row b in a direct call
TopkLog(b, s) == Log(unit.probs[<<b, s>>])

\* C4: at temperature 0, when at least k positions of a row are masked
\* candidates (finite confidence), mask_by_random_topk returns a mask with
\* exactly k true positions in that row, the k of lowest confidence.
C4_ExactlyKLowest ==
    (/\ unit.op = "topk"
     /\ unit.done
     /\ unit.temperature = 0
     /\ \A b \in 0 .. (unit.B - 1) :
            Cardinality({s \in 0 .. (unit.L - 1) : TopkLog(b, s) # Inf}) >= unit.num_to_mask[b]) =>
        /\ ~unit.raised
        /\ \A b \in 0 .. (unit.B - 1) :
              /\ Cardinality({s \in 0 .. (unit.L - 1) : unit.out[<<b, s>>]}) = unit.num_to_mask[b]
              /\ \A s, t \in 0 .. (unit.L - 1) :
                     (unit.out[<<b, s>>] /\ ~unit.out[<<b, t>>]) => TopkLog(b, s) <= TopkLog(b, t)

\* C7: with typical_min_tokens = 1 and 0 < typical_mass <= 1 typical_filter
\* returns, and the original probabilities of the entries it retains sum
\* to at least typical_mass.
C7_RetainedMass ==
    (/\ unit.op = "typical"
     /\ unit.done
     /\ unit.typical_min_tokens = 1
     /\ unit.typical_mass[1] <= unit.typical_mass[2]) =>
        /\ ~unit.raised
        /\ Total(unit.out, unit.K) * unit.typical_mass[2]
               >= unit.typical_mass[1] * Total(unit.w, unit.K)

\* a call with typical_mass = 0.5 that kept two entries and removed an entry of positive probability
C7_Witness ==
    /\ unit.op = "typical"
    /\ unit.done
    /\ unit.typical_min_tokens = 1
    /\ unit.typical_mass = <<1, 2>>
    /\ ~unit.raised
    /\ \E v \in 0 .. (unit.K - 1) : unit.w[v] > 0 /\ unit.out[v] = 0
    /\ \E v, u \in 0 .. (unit.K - 1) : v # u /\ unit.out[v] > 0 /\ unit.out[u] > 0

\* C8: flattening a token grid (its predicted codebooks, as a step does)
\* and unflattening the result puts every token back at its own
\* (codebook, time) cell: the grid is the same, element for element.
C8_RoundTrip ==
    (unit.op = "flatten" /\ unit.stage = 2) => unit.back = unit.x

\* a round trip of a whole grid with several codebooks and time steps whose
\* cells (codebook 0, time 1) and (codebook 1, time 0) differ
C8_Witness ==
    /\ unit.op = "flatten"
    /\ unit.stage = 2
    /\ unit.ncond = 0
    /\ unit.shape[2] >= 2
    /\ unit.shape[3] >= 2
    /\ unit.x[<<0, 0, 1>>] # unit.x[<<0, 1, 0>>]
    /\ unit.back[<<0, 0, 1>>] = unit.x[<<0, 0, 1>>]

\* ------------------------------------------------------- determinism (C11)
\* lines 263-311 as a function of what a step reads: the grid zm it starts
\* from, the step number ii, the scored logits lg, the categorical draws dr
\* and the Gumbel noise nz.  The grids z_masked, mask and sampled_z it leaves.
step_grids(zm, zz, ii, N, nstart, B, C, T, ncond, temp, lg, dr, nz) ==
    LET ninf == n_infer_codebooks(C, ncond)
        L == ninf * T
    IN  Only({Only({Only({
            [z_masked |-> add_conditioning(zz, codebook_unflatten(remask(nm, sz), B, L, ninf),
                                           B, C, T, ncond),
             mask |-> codebook_unflatten(nm, B, L, ninf),
             sampled_z |-> sz] :
            nm \in {mask_by_random_topk(
                        num_to_mask(ii, N, mask_sum(is_mask_token(zf), B, L), nstart, B),
                        ignore_unmasked(is_mask_token(zf), selected_probs(lg, dr)),
                        B, L, temp * (N - (ii + 1)), N, nz)}}) :
            sz \in {keep_committed(is_mask_token(zf), dr, zf)}}) :
            zf \in {codebook_flatten(drop_conditioning(zm, B, C, T, ncond), B, ninf, T)}})

\* C11: at temperature 0 without typical filtering, the grids a step leaves
\* (tokens, mask, sampled tokens) are a function of the grids it started
\* from, the scoring function's logits and the categorical draws, whatever
\* the Gumbel noise; and the returned grid is a function of the last step's
\* grids.  Two runs with the same inputs and the same draws therefore go
\* through the same grids at every step and return the same grid.
C11_SameDrawsSameGrids ==
    [][(args.temperature = 0 /\ ~args.typical_filtering) =>
          /\ (pc = "loop" /\ i' = i + 1) =>
                \A nz \in GumbelTensors(shape[1], n_infer_codebooks(shape[2], Ncond) * shape[3]) :
                    \E g \in {step_grids(z_masked, z, i, Nsteps, num_mask_tokens_at_start,
                                         shape[1], shape[2], shape[3], Ncond,
                                         args.temperature, logits', drawn', nz)} :
                        /\ z_masked' = g.z_masked
                        /\ mask'.val = g.mask
                        /\ sampled_z' = g.sampled_z
          /\ (pc = "loop" /\ pc' = "done") =>
                ret'.tokens = add_conditioning(z,
                                  codebook_unflatten(sampled_z, shape[1],
                                      n_infer_codebooks(shape[2], Ncond) * shape[3],
                                      n_infer_codebooks(shape[2], Ncond)),
                                  shape[1], shape[2], shape[3], Ncond)]_vars

\* a finished run of three steps at temperature 0, without typical
\* filtering, that began with at least three masked positions in one row
C11_Witness ==
    /\ pc = "done"
    /\ args.temperature = 0
    /\ ~args.typical_filtering
    /\ Nsteps = 3
    /\ shape[1] = 1
    /\ num_mask_tokens_at_start >= 3
    /\ \E p \in DOMAIN drawn : drawn[p] = 0

\* C12: gamma(0) = 1, gamma(1) = 0 and gamma is non-increasing over the
\* ratios k / N, so the scheduled count floor(gamma(r) * num_mask_tokens_at_start)
\* does not grow from one step to the next and is 0 on the final step.
C12_ScheduleNonIncreasing ==
    (pc = "loop" /\ Nsteps >= 1) =>
        /\ gamma(0, Nsteps) = 1000
        /\ gamma(Nsteps, Nsteps) = 0
        /\ \A k \in 1 .. Nsteps : gamma(k, Nsteps) <= gamma(k - 1, Nsteps)
        /\ \A k \in 1 .. (Nsteps - 1) :
               scheduled(k, Nsteps, num_mask_tokens_at_start)
                   <= scheduled(k - 1, Nsteps, num_mask_tokens_at_start)
        /\ \A k \in 0 .. (Nsteps - 1) :
               scheduled(k, Nsteps, num_mask_tokens_at_start) >= 0
        /\ scheduled(Nsteps - 1, Nsteps, num_mask_tokens_at_start) = 0

\* three steps over four masked positions: the scheduled counts 3, 2, 0
C12_Witness ==
    /\ pc = "loop"
    /\ i = 3
    /\ Nsteps = 3
    /\ num_mask_tokens_at_start = 4
    /\ scheduled(0, 3, 4) = 3
    /\ scheduled(1, 3, 4) = 2
    /\ scheduled(2, 3, 4) = 0

\* C13: on every non-final step (i < sampling_steps - 1), every batch row
\* with at least one masked position at the start of the step has at least
\* one of them committed during the step and at least one position still
\* masked at its end.
C13_OneFreedOneKept ==
    [][(pc = "loop" /\ i' = i + 1 /\ i < Nsteps - 1) =>
          \A b \in Rows :
              MaskedCount(z_masked, b) >= 1 =>
                  /\ MaskedCount(z_masked', b) < MaskedCount(z_masked, b)
                  /\ MaskedCount(z_masked', b) >= 1]_vars

\* predicted-codebook cells that do not hold the mask token
Unmasked(x) == {p \in DOMAIN x : p[2] >= Ncond /\ x[p] # mask_token}

\* C14: in every step, at any temperature, a predicted-codebook position
\* that is not masked at the start of the step is not masked at its end and
\* holds the same token; and the returned grid holds, at every position
\* unmasked after the last step, the token it held then.
C14_CommittedStaysCommitted ==
    [][/\ (pc = "loop" /\ i' = i + 1) =>
              \A p \in Unmasked(z_masked) : z_masked'[p] = z_masked[p]
       /\ (pc = "loop" /\ pc' = "done") =>
              \A p \in Unmasked(z_masked) : ret'.tokens[p] = z_masked[p]]_vars

\* a finished run of three steps at temperature 1 in which a position
\* committed by an earlier step sat beside positions masked in a later one
C14_Witness ==
    /\ pc = "done"
    /\ args.temperature = 1
    /\ Nsteps = 3
    /\ args.start_tokens.some
    /\ args.mask.some
    /\ args.mask.shape = shape
    /\ shape = <<1, 1, 3>>
    /\ args.mask.val[<<0, 0, 0>>]
    /\ args.mask.val[<<0, 0, 1>>]
    /\ ~args.mask.val[<<0, 0, 2>>]
    /\ ret.tokens[<<0, 0, 2>>] = args.start_tokens.val[<<0, 0, 2>>]

\* C15: whenever a step is about to run, with caller-supplied start_tokens
\* and any caller-supplied or default mask, the grid handed to the scoring
\* function carries the caller's tokens in the first
\* n_conditioning_codebooks channels.
C15_ConditioningNeverMasked ==
    (pc = "loop" /\ i < Nsteps /\ args.start_tokens.some) =>
        \A p \in Cells(shape) :
            p[2] < Ncond => z_masked[p] = args.start_tokens.val[p]

\* C16: the denominator num_mask_tokens_at_start that schedules a row's
\* num_to_mask is fixed at INIT and equals, for every batch row, the number
\* of initially masked positions of that row in the predicted codebooks.
C16_PerRowDenominator ==
    (pc = "loop" /\ i = 0 /\ Nsteps >= 1) =>
        \A b \in Rows : num_mask_tokens_at_start = MaskedCount(z_masked, b)

\* C17: a run with sampling_steps = N >= 1 that passed INIT runs its steps
\* in the order 0 .. N-1, calls the scoring function once per step, never
\* ends in an error, and is DONE only after exactly N steps.
C17_ExactlyNSteps ==
    (Nsteps >= 1 /\ pc # "call" /\ ~FailedBeforeFirstStep) =>
        /\ pc \in {"loop", "done"}
        /\ i <= Nsteps
        /\ calls.forward = i
        /\ calls.from_codes = i
        /\ (pc = "done" => i = Nsteps)

\* the perturbed confidences of a direct call of mask_by_random_topk
TopkConf == confidence(unit.probs, unit.temperature, 1, unit.noise)

\* row b of conf in ascending order, as a sequence indexed from 0
Ascending(conf, b, L) ==
    CHOOSE q \in [0 .. (L - 1) -> {conf[<<b, s>>] : s \in 0 .. (L - 1)}] :
        /\ \A a, c \in 0 .. (L - 1) : a < c => q[a] <= q[c]
        /\ \A v \in {conf[<<b, s>>] : s \in 0 .. (L - 1)} :
               Cardinality({a \in 0 .. (L - 1) : q[a] = v})
                   = Cardinality({s \in 0 .. (L - 1) : conf[<<b, s>>] = v})

\* C18 as stated: with 1 <= num_to_mask <= row length the call returns, and
\* a position is masked exactly when its perturbed confidence is strictly
\* below the one at 0-indexed rank num_to_mask - 1 of the ascending sort.
C18_CutoffAtRankBefore ==
    (/\ unit.op = "topk"
     /\ unit.done
     /\ \A b \in 0 .. (unit.B - 1) : 1 <= unit.num_to_mask[b] /\ unit.num_to_mask[b] <= unit.L) =>
        /\ ~unit.raised
        /\ \A b \in 0 .. (unit.B - 1) : \A s \in 0 .. (unit.L - 1) :
               unit.out[<<b, s>>]
                   <=> TopkConf[<<b, s>>] < Ascending(TopkConf, b, unit.L)[unit.num_to_mask[b] - 1]

\* C18 amended: the call raises exactly when some row's num_to_mask is not
\* an index of the row (num_to_mask >= row length); otherwise the cutoff
\* is the perturbed confidence at 0-indexed rank num_to_mask of the
\* ascending sort and a position is masked exactly when its perturbed
\* confidence is strictly below it.
C18_CutoffAtRankK ==
    (unit.op = "topk" /\ unit.done) =>
        /\ unit.raised <=> \E b \in 0 .. (unit.B - 1) : unit.num_to_mask[b] >= unit.L
        /\ ~unit.raised =>
               \A b \in 0 .. (unit.B - 1) : \A s \in 0 .. (unit.L - 1) :
                   unit.out[<<b, s>>]
                       <=> TopkConf[<<b, s>>] < Ascending(TopkConf, b, unit.L)[unit.num_to_mask[b]]

\* a call at temperature 1 on a row of three distinct finite confidences
\* with num_to_mask = 2: the two lowest are masked, the cutoff position is not
C18_Witness ==
    /\ unit.op = "topk"
    /\ unit.done
    /\ ~unit.raised
    /\ unit.B = 1
    /\ unit.L = 3
    /\ unit.temperature = 1
    /\ unit.num_to_mask[0] = 2
    /\ \A s, t \in 0 .. 2 : s # t => TopkConf[<<0, s>>] # TopkConf[<<0, t>>]
    /\ \A s \in 0 .. 2 : TopkConf[<<0, s>>] # Inf
    /\ Cardinality({s \in 0 .. 2 : unit.out[<<0, s>>]}) = 2

\* the sorted rank of entry v in a direct call of typical_filter
TypicalRank(v) == CHOOSE j \in 0 .. (unit.K - 1) : unit.perm[j] = v

\* an entry of positive probability that the call removed
TypicalRemoved(v) == unit.w[v] > 0 /\ unit.out[v] = 0

\* the deviation at the sorted rank where the cumulative mass reaches typical_mass
TypicalCutoff ==
    c_flat_shifted(unit.w, unit.K,
                   unit.perm[last_ind(unit.w, unit.K, unit.perm,
                                      unit.typical_mass[1], unit.typical_mass[2])])

\* C19: a returned call of typical_filter with typical_min_tokens = m > 1
\* removes none of the first m entries in typical order; with m <= 1 an
\* entry is removed exactly when its deviation exceeds the deviation at
\* the mass cutoff; in both cases at least one entry is retained.
C19_MinTokensKept ==
    (unit.op = "typical" /\ unit.done /\ ~unit.raised) =>
        /\ unit.typical_min_tokens > 1 =>
               \A v \in 0 .. (unit.K - 1) :
                   TypicalRank(v) < unit.typical_min_tokens => ~TypicalRemoved(v)
        /\ unit.typical_min_tokens <= 1 =>
               \A v \in 0 .. (unit.K - 1) :
                   TypicalRemoved(v) <=>
                       (unit.w[v] > 0 /\ c_flat_shifted(unit.w, unit.K, v) > TypicalCutoff)
        /\ \E v \in 0 .. (unit.K - 1) : unit.out[v] > 0

\* a call with typical_min_tokens = 2 whose first entry in typical order
\* already reaches typical_mass and whose second, beyond the cutoff, is kept
C19_Witness ==
    /\ unit.op = "typical"
    /\ unit.done
    /\ ~unit.raised
    /\ unit.typical_min_tokens = 2
    /\ unit.w[unit.perm[1]] > 0
    /\ c_flat_shifted(unit.w, unit.K, unit.perm[1]) > TypicalCutoff
    /\ unit.out[unit.perm[1]] > 0

\* the mask grid at predicted-codebook cell p of the token grid
MaskGridAt(p) == mask.val[<<p[1], p[2] - Ncond, p[3]>>]

\* C20: after every step, a predicted-codebook position holds the mask
\* token if and only if the mask grid is true there, and with
\* in-vocabulary start tokens every position where the mask is false holds
\* a token of the vocabulary.
C20_SentinelIffMasked ==
    (pc \in {"loop", "done"} /\ i >= 1) =>
        \A p \in Cells(shape) :
            p[2] >= Ncond =>
                /\ z_masked[p] = mask_token <=> MaskGridAt(p)
                /\ (/\ args.start_tokens.some
                    /\ \A q \in Cells(shape) : args.start_tokens.val[q] \in Vocab
                    /\ ~MaskGridAt(p)) => z_masked[p] \in Vocab

\* after the first of three steps on in-vocabulary start tokens, one
\* position is still masked and another holds a freshly sampled token
C20_Witness ==
    /\ pc = "loop"
    /\ i = 1
    /\ Nsteps = 3
    /\ args.start_tokens.some
    /\ \A q \in Cells(shape) : args.start_tokens.val[q] \in Vocab
    /\ \E p, q \in Cells(shape) :
           /\ p[2] >= Ncond
           /\ q[2] >= Ncond
           /\ z_masked[p] = mask_token
           /\ MaskGridAt(p)
           /\ ~MaskGridAt(q)
           /\ z_masked[q] # args.start_tokens.val[q]

====
